---- MODULE Spec2Model ----
(***************************************************************************)
(* Trace timeline chart: the normalizer (processData), the filter          *)
(* (filteredTasks), the configuration boundary (applyConfig /              *)
(* handleConfigChange), the aggregation (typeBreakdown) and the adaptive   *)
(* formatter (formatDuration), as written in src/components/*.vue.         *)
(*                                                                         *)
(* Representation of JavaScript values:                                    *)
(*   - an optional field is a sequence: <<>> is undefined, <<v>> is v;     *)
(*   - a task name is the sequence of its '_'-free pieces, so that         *)
(*     name.split('_') is the sequence itself: "ROM_a" is <<"ROM","a">>,   *)
(*     "constructor" is <<"constructor">>, "" is <<"">>;                   *)
(*   - a string built by a template literal is a record of its parts.      *)
(***************************************************************************)
EXTENDS Integers, Sequences, FiniteSets, TLC

VARIABLES
    isMounted,      \* Chart.vue: isMounted
    loading,        \* Chart.vue: loading
    error,          \* Chart.vue: error (<<>> is null)
    allTasks,       \* Chart.vue: allTasks
    config,         \* Chart.vue: config (the active configuration)
    isRendering,    \* Chart.vue: isRendering
    chartInstance,  \* Chart.vue: chartInstance (<<>> is null, else <<chart>>)
    unmounted,      \* the component has been unmounted (chartRef is null again)
    instances,      \* the Chart objects created and not destroyed
    jsonPath,       \* Chart.vue: props.jsonPath
    loads,          \* the loadData calls suspended at their awaits
    render,         \* the renderChart calls suspended at their awaits, oldest first
    lastOp,         \* the handler or function that ran last ("init" before any)
    arg,            \* input of the pure function under check
    res             \* its result (<<>> before it is applied)

vars == <<isMounted, loading, error, allTasks, config, isRendering,
          chartInstance, unmounted, instances, jsonPath, loads, render, lastOp, arg, res>>

(***************************************************************************)
(* Bounds and program constants                                            *)
(***************************************************************************)
MaxRecs == 3

MaxFilterRecs == 2

MaxMinute == 3

MaxStatRecs == 6

MaxStatDuration == 2

MaxMixedRecs == 2

MaxLoads == 1

MaxWindow == 2

MicrosPerMin == 60000000

None == <<>>
Some(v) == <<v>>
IsDefined(o) == o # <<>>
Val(o) == o[1]

Range(s) == {s[i] : i \in 1..Len(s)}

RECURSIVE SumSeq(_)
SumSeq(s) == IF s = <<>> THEN 0 ELSE Head(s) + SumSeq(Tail(s))

RECURSIVE SeqsUpTo(_, _)
SeqsUpTo(S, n) ==
    IF n = 0 THEN {<<>>}
    ELSE LET shorter == SeqsUpTo(S, n - 1)
         IN  shorter \cup {Append(s, x) : s \in {t \in shorter : Len(t) = n - 1}, x \in S}

(***************************************************************************)
(* Raw records of the duration form                                        *)
(***************************************************************************)
\* Names a payload may carry; <<>> is a record without name.
RawNames == {<<>>, <<"ROM", "a">>, <<"Task", "2">>, <<"constructor">>}

RawStarts == {None, Some(MicrosPerMin)}

RawDurations == {None, Some(0 - MicrosPerMin), Some(2 * MicrosPerMin)}

RawEnds == {None, Some(2 * MicrosPerMin)}

RawItems == [name : RawNames, start : RawStarts, duration : RawDurations, end : RawEnds]

\* The number n as the text a template literal gives it.
Digits(n) == ToString(n)

(***************************************************************************)
(* Plain objects used as dictionaries: `{}` inherits the properties of     *)
(* Object.prototype, so obj[key] is not undefined for those keys.          *)
(***************************************************************************)
ObjectPrototypeKeys ==
    {<<"constructor">>, <<"toString">>, <<"valueOf">>, <<"hasOwnProperty">>}

\* A count as processData computes it: a number, or (when the lookup found
\* an inherited property) the text of that property followed by `ones` "1"s.
NumberCount(n) == [isNumber |-> TRUE, n |-> n]
StringCount(k) == [isNumber |-> FALSE, n |-> k]

\* (nameCounts[taskName] || 0) + 1
NextCount(nameCounts, taskName) ==
    IF taskName \in DOMAIN nameCounts
    THEN LET c == nameCounts[taskName]
         IN  IF c.isNumber THEN NumberCount(c.n + 1) ELSE StringCount(c.n + 1)
    ELSE IF taskName \in ObjectPrototypeKeys
         THEN StringCount(1)
         ELSE NumberCount(1)

(***************************************************************************)
(* Category classifier                                                     *)
(***************************************************************************)
ColorMap ==
    [Main    |-> [primary |-> "#475569", secondary |-> "#334155", border |-> "#64748B"],
     ROM     |-> [primary |-> "#1E40AF", secondary |-> "#1E3A8A", border |-> "#3B82F6"],
     INPUT   |-> [primary |-> "#6B21A8", secondary |-> "#581C87", border |-> "#8B5CF6"],
     MEM     |-> [primary |-> "#166534", secondary |-> "#14532D", border |-> "#22C55E"],
     BINARY  |-> [primary |-> "#C2410C", secondary |-> "#9A3412", border |-> "#F97316"],
     ARITH   |-> [primary |-> "#0EA5E9", secondary |-> "#0369A1", border |-> "#38BDF8"],
     KECCAKF |-> [primary |-> "#B91C1C", secondary |-> "#991B1B", border |-> "#EF4444"],
     DEFAULT |-> [primary |-> "#374151", secondary |-> "#1F2937", border |-> "#6B7280"]]

\* colorMap[type] || colorMap.DEFAULT; for a key of Object.prototype the
\* lookup yields the inherited function, whose colour fields are undefined.
getColorForTask(taskName) ==
    LET type == taskName[1]
    IN  IF type \in DOMAIN ColorMap THEN ColorMap[type]
        ELSE IF <<type>> \in ObjectPrototypeKeys
             THEN [primary |-> "undefined", secondary |-> "undefined", border |-> "undefined"]
             ELSE ColorMap["DEFAULT"]

(***************************************************************************)
(* Record normalizer                                                       *)
(***************************************************************************)
\* item.name || `Task_${index + 1}`  (index is 1-based here)
TaskNameOf(item, index) ==
    IF item.name # <<>> /\ item.name # <<"">> THEN item.name
    ELSE <<"Task", Digits(index)>>

\* item.duration || 0
DurationOf(item) ==
    IF IsDefined(item.duration) /\ Val(item.duration) # 0 THEN Val(item.duration) ELSE 0

\* One call of the map callback: the task it returns.
ProcessItem(item, index, nameCounts, cumulativeStart) ==
    LET taskName == TaskNameOf(item, index)
        duration == DurationOf(item)
        start    == IF IsDefined(item.start) THEN Val(item.start) ELSE cumulativeStart
        end      == IF IsDefined(item.end) THEN Val(item.end) ELSE start + duration
        count    == NextCount(nameCounts, taskName)
    IN  [name         |-> [base |-> taskName, count |-> count, duration |-> duration],
         originalName |-> taskName,
         originalData |-> item,
         colorScheme  |-> getColorForTask(taskName),
         segments     |-> <<[start |-> start, end |-> end, duration |-> duration]>>]

\* A normalizer whose cursor would advance after every record.
RECURSIVE ProcessFromAdvancing(_, _, _, _)
ProcessFromAdvancing(rawData, index, nameCounts, cumulativeStart) ==
    IF index > Len(rawData) THEN <<>>
    ELSE LET item == rawData[index]
             task == ProcessItem(item, index, nameCounts, cumulativeStart)
             name == task.originalName
             counts == [k \in DOMAIN nameCounts \cup {name} |->
                            IF k = name THEN task.name.count ELSE nameCounts[k]]
         IN  <<task>> \o ProcessFromAdvancing(rawData, index + 1, counts, task.segments[1].end)

\* A normalizer that would give up at the first record without duration.
RECURSIVE ProcessFromAborting(_, _, _, _)
ProcessFromAborting(rawData, index, nameCounts, cumulativeStart) ==
    IF index > Len(rawData) \/ ~IsDefined(rawData[index].duration) THEN <<>>
    ELSE LET item == rawData[index]
             task == ProcessItem(item, index, nameCounts, cumulativeStart)
             name == task.originalName
             counts == [k \in DOMAIN nameCounts \cup {name} |->
                            IF k = name THEN task.name.count ELSE nameCounts[k]]
             cursor == IF IsDefined(item.start) THEN cumulativeStart
                       ELSE task.segments[1].end
         IN  <<task>> \o ProcessFromAborting(rawData, index + 1, counts, cursor)

RECURSIVE ProcessFrom(_, _, _, _)
ProcessFrom(rawData, index, nameCounts, cumulativeStart) ==
    IF index > Len(rawData) THEN <<>>
    ELSE LET item == rawData[index]
             task == ProcessItem(item, index, nameCounts, cumulativeStart)
             name == task.originalName
             counts == [k \in DOMAIN nameCounts \cup {name} |->
                            IF k = name THEN task.name.count ELSE nameCounts[k]]
             cursor == IF IsDefined(item.start) THEN cumulativeStart
                       ELSE task.segments[1].end
         IN  <<task>> \o ProcessFrom(rawData, index + 1, counts, cursor)

processData(rawData) == ProcessFrom(rawData, 1, <<>>, 0)

(***************************************************************************)
(* Filter & selection (Chart.vue, computed filteredTasks)                  *)
(***************************************************************************)
\* task.originalName.split('_')[0]
TypeOf(task) == task.originalName[1]

\* A category filter that would be active in subset mode whatever is selected.
CategoryFilterAlways(tasks, cfg) ==
    IF ~cfg.showAll
    THEN LET Keep(task) == TypeOf(task) \in cfg.selectedTypes
         IN  SelectSeq(tasks, Keep)
    ELSE tasks

\* The category filter, applied only when it is active.
CategoryFilter(tasks, cfg) ==
    IF ~cfg.showAll /\ Cardinality(cfg.selectedTypes) > 0
    THEN LET Keep(task) == TypeOf(task) \in cfg.selectedTypes
         IN  SelectSeq(tasks, Keep)
    ELSE tasks

\* A time filter that would keep only the intervals lying inside the window.
TimeFilterContained(tasks, cfg) ==
    IF cfg.timeMode = "custom"
    THEN LET startMicros == cfg.startTime * MicrosPerMin
             endMicros   == cfg.endTime * MicrosPerMin
             Keep(task)  == /\ task.segments[1].start >= startMicros
                            /\ task.segments[1].end <= endMicros
         IN  SelectSeq(tasks, Keep)
    ELSE tasks

\* A time filter that would measure the window from the first interval of
\* the list it is given.
TimeFilterFromFirst(tasks, cfg) ==
    IF cfg.timeMode = "custom" /\ Len(tasks) > 0
    THEN LET origin      == tasks[1].segments[1].start
             startMicros == cfg.startTime * MicrosPerMin
             endMicros   == cfg.endTime * MicrosPerMin
             Keep(task)  == /\ task.segments[1].start - origin < endMicros
                            /\ task.segments[1].end - origin > startMicros
         IN  SelectSeq(tasks, Keep)
    ELSE tasks

\* The time filter: the window is given in minutes and compared in microseconds.
TimeFilter(tasks, cfg) ==
    IF cfg.timeMode = "custom"
    THEN LET startMicros == cfg.startTime * MicrosPerMin
             endMicros   == cfg.endTime * MicrosPerMin
             Keep(task)  == /\ task.segments[1].start < endMicros
                            /\ task.segments[1].end > startMicros
         IN  SelectSeq(tasks, Keep)
    ELSE tasks

FilterTasks(tasks, cfg) ==
    IF Len(tasks) = 0 THEN <<>>
    ELSE TimeFilter(CategoryFilter(tasks, cfg), cfg)

filteredTasks == FilterTasks(allTasks, config)

\* availableTypes, as a set (the code sorts it into an array)
availableTypes == {TypeOf(allTasks[i]) : i \in 1..Len(allTasks)}

(***************************************************************************)
(* The component before it is mounted                                      *)
(***************************************************************************)
InitialConfig ==
    [showAll |-> TRUE, selectedTypes |-> {}, timeMode |-> "all",
     startTime |-> 0, endTime |-> 0]

ChartNew ==
    /\ isMounted = FALSE
    /\ loading = TRUE
    /\ error = None
    /\ allTasks = <<>>
    /\ config = InitialConfig
    /\ isRendering = FALSE
    /\ chartInstance = None
    /\ unmounted = FALSE
    /\ instances = 0
    /\ loads = <<>>
    /\ render = None

\* The component as the specifications of the pure functions hold it.
ChartIdle == ChartNew /\ jsonPath = "a"

chartVars == <<isMounted, loading, error, allTasks, config, isRendering,
               chartInstance, unmounted, instances, jsonPath, loads, render>>

(***************************************************************************)
(* SpecNorm: processData applied to every payload of at most MaxRecs       *)
(* duration-form records.                                                  *)
(***************************************************************************)
InitNorm ==
    /\ arg \in SeqsUpTo(RawItems, MaxRecs)
    /\ res = None
    /\ lastOp = "init"
    /\ ChartIdle

Normalize ==
    /\ lastOp = "init"
    /\ res' = Some(processData(arg))
    /\ lastOp' = "processData"
    /\ UNCHANGED <<arg, chartVars>>

NextNorm == Normalize

SpecNorm == InitNorm /\ [][NextNorm]_vars

\* The tasks processData returned (<<>> before it ran).
Normalized == IF IsDefined(res) THEN Val(res) ELSE <<>>

\* How many of the first i tasks carry the base name of task i.
SameNameUpTo(tasks, i) ==
    Cardinality({j \in 1..i : tasks[j].originalName = tasks[i].originalName})

\* C1: every interval produced by processData from duration-form records has
\* duration = end - start and end >= start, also for records with an explicit
\* end and for records whose duration is missing or negative.
C1_DurationIsEndMinusStart ==
    lastOp = "processData" =>
        \A i \in 1..Len(Normalized) :
            LET seg == Normalized[i].segments[1]
            IN  seg.duration = seg.end - seg.start /\ seg.end >= seg.start

\* C2: the N records that share a base name get the occurrence numbers 1..N
\* in input order, whatever names are interleaved, defaulted names included.
C2_OccurrencesCountUp ==
    lastOp = "processData" =>
        \A i \in 1..Len(Normalized) :
            Normalized[i].name.count = NumberCount(SameNameUpTo(Normalized, i))

\* The numbering of C2 for the base names that are not properties of
\* Object.prototype.
C2_OccurrencesCountUpOwnNames ==
    lastOp = "processData" =>
        \A i \in 1..Len(Normalized) :
            Normalized[i].originalName \notin ObjectPrototypeKeys =>
                Normalized[i].name.count = NumberCount(SameNameUpTo(Normalized, i))

(***************************************************************************)
(* SpecFilter: the filter of filteredTasks applied to every interval list  *)
(* processData yields from at most MaxFilterRecs well-formed records, under *)
(* every configuration with a window inside 0..MaxMinute minutes.          *)
(***************************************************************************)
FilterItems ==
    [name     : {<<"ROM", "a">>, <<"MEM", "b">>},
     start    : {Some(m * MicrosPerMin) : m \in 0..(MaxMinute - 1)},
     duration : {Some(MicrosPerMin), Some(2 * MicrosPerMin)},
     end      : {None}]

FilterTypes == {"ROM", "MEM", "INPUT"}

\* Every configuration the panel can propose over the types `types`; the
\* fields a mode does not read are held at one value.
Configs(types) ==
    {c \in [showAll : BOOLEAN, selectedTypes : SUBSET types,
            timeMode : {"all", "custom"},
            startTime : 0..MaxMinute, endTime : 0..MaxMinute] :
        /\ c.showAll => c.selectedTypes = types
        /\ c.timeMode = "all" => c.startTime = 0 /\ c.endTime = MaxMinute}

InitFilter ==
    /\ arg \in [tasks : {processData(p) : p \in SeqsUpTo(FilterItems, MaxFilterRecs)},
                cfg   : Configs(FilterTypes)]
    /\ res = None
    /\ lastOp = "init"
    /\ ChartIdle

\* filteredTasks evaluated on the canonical list.
ApplyFilter ==
    /\ lastOp = "init"
    /\ res' = Some(FilterTasks(arg.tasks, arg.cfg))
    /\ lastOp' = "filter"
    /\ UNCHANGED <<arg, chartVars>>

\* The same filter evaluated on its own result.
ReapplyFilter ==
    /\ lastOp = "filter"
    /\ res' = Some(FilterTasks(Val(res), arg.cfg))
    /\ lastOp' = "refilter"
    /\ UNCHANGED <<arg, chartVars>>

NextFilter == ApplyFilter \/ ReapplyFilter

SpecFilter == InitFilter /\ [][NextFilter]_vars

\* s is t with some elements left out, order kept.
RECURSIVE IsSubSeq(_, _)
IsSubSeq(s, t) ==
    IF s = <<>> THEN TRUE
    ELSE IF t = <<>> THEN FALSE
    ELSE IF Head(s) = Head(t) THEN IsSubSeq(Tail(s), Tail(t))
    ELSE IsSubSeq(s, Tail(t))

Overlaps(task, cfg) ==
    /\ task.segments[1].start < cfg.endTime * MicrosPerMin
    /\ task.segments[1].end > cfg.startTime * MicrosPerMin

InCategory(task, cfg) == cfg.showAll \/ TypeOf(task) \in cfg.selectedTypes

\* C3: in custom time mode the filter keeps an interval iff it overlaps the
\* window: start < windowEnd and end > windowStart, the window taken in
\* microseconds (among the intervals the category filter lets through).
C3_CustomWindowKeepsOverlapping ==
    (lastOp = "filter" /\ arg.cfg.timeMode = "custom") =>
        /\ IsSubSeq(Val(res), arg.tasks)
        /\ \A i \in 1..Len(arg.tasks) :
              LET task == arg.tasks[i]
              IN  (task \in Range(Val(res))) <=>
                      (Overlaps(task, arg.cfg) /\ task \in Range(CategoryFilter(arg.tasks, arg.cfg)))

\* A partially overlapping interval is kept: [0,2] min under the window [1,3].
C3_Witness ==
    /\ lastOp = "filter"
    /\ arg.cfg.timeMode = "custom"
    /\ arg.cfg.startTime = 1 /\ arg.cfg.endTime = 3
    /\ \E i \in 1..Len(Val(res)) :
          /\ Val(res)[i].segments[1].start = 0
          /\ Val(res)[i].segments[1].end = 2 * MicrosPerMin
    /\ Len(Val(res)) < Len(arg.tasks)

\* C4 as claimed: an interval is in the result iff the mode is 'all' or its
\* category is selected, also when nothing is selected.
C4_CategoryIffSelected ==
    (lastOp = "filter" /\ arg.cfg.timeMode = "all") =>
        \A i \in 1..Len(arg.tasks) :
            (arg.tasks[i] \in Range(Val(res))) <=> InCategory(arg.tasks[i], arg.cfg)

\* C4 as the code has it: an empty selection filters nothing.
C4_CategoryIffSelectedOrNoneSelected ==
    (lastOp = "filter" /\ arg.cfg.timeMode = "all") =>
        /\ IsSubSeq(Val(res), arg.tasks)
        /\ \A i \in 1..Len(arg.tasks) :
              (arg.tasks[i] \in Range(Val(res))) <=>
                  (InCategory(arg.tasks[i], arg.cfg) \/ arg.cfg.selectedTypes = {})
        /\ (~arg.cfg.showAll /\ arg.cfg.selectedTypes # {}) =>
              \A i \in 1..Len(Val(res)) : TypeOf(Val(res)[i]) \in arg.cfg.selectedTypes

\* Subset mode with nothing selected: both intervals are in the result.
C4_Witness ==
    /\ lastOp = "filter"
    /\ ~arg.cfg.showAll
    /\ arg.cfg.selectedTypes = {}
    /\ arg.cfg.timeMode = "all"
    /\ Len(arg.tasks) = 2
    /\ Val(res) = arg.tasks

\* C5: filtering is idempotent: the filter applied to its own result under
\* the same configuration returns that result, in the same order.
C5_FilterIdempotent ==
    lastOp = "refilter" => Val(res) = FilterTasks(arg.tasks, arg.cfg)

\* The filter dropped an interval for its category and one for its time, and ran twice.
C5_Witness ==
    /\ lastOp = "refilter"
    /\ ~arg.cfg.showAll /\ arg.cfg.selectedTypes # {}
    /\ arg.cfg.timeMode = "custom"
    /\ Len(Val(res)) >= 1
    /\ Len(Val(res)) < Len(arg.tasks)

(***************************************************************************)
(* Aggregation (ChartStats.vue)                                            *)
(***************************************************************************)
\* task.type, as a property key: a task without `type` yields undefined.
PropType(task) == IF "type" \in DOMAIN task THEN task.type ELSE "undefined"

\* task.segments.reduce((sum, seg) => sum + seg.duration, 0)
RECURSIVE SegmentsDuration(_)
SegmentsDuration(segments) ==
    IF segments = <<>> THEN 0
    ELSE Head(segments).duration + SegmentsDuration(Tail(segments))

RECURSIVE totalDurationSum(_)
totalDurationSum(tasks) ==
    IF tasks = <<>> THEN 0
    ELSE SegmentsDuration(Head(tasks).segments) + totalDurationSum(Tail(tasks))

\* formatTime of ChartStats.vue: the value in thousandths of the unit
\* (toFixed(3)), or in whole microseconds (toFixed(0)).
StatsFormatTime(time) ==
    IF time >= 1000000 THEN [milli |-> (time + 500) \div 1000, unit |-> "s"]
    ELSE IF time >= 1000 THEN [milli |-> time, unit |-> "ms"]
    ELSE [milli |-> time * 1000, unit |-> "us"]

\* The forEach of typeBreakdown: typeStats as the sequence of its own
\* entries in insertion order. A type that is a property of Object.prototype
\* finds the inherited value, so no own entry is ever created for it.
RECURSIVE TypeStats(_, _)
TypeStats(tasks, typeStats) ==
    IF tasks = <<>> THEN typeStats
    ELSE LET task == Head(tasks)
             type == PropType(task)
             dur  == SegmentsDuration(task.segments)
             at   == {i \in 1..Len(typeStats) : typeStats[i].name = type}
         IN  IF at # {}
             THEN TypeStats(Tail(tasks),
                      [i \in 1..Len(typeStats) |->
                          IF i \in at
                          THEN [typeStats[i] EXCEPT !.duration = @ + dur, !.count = @ + 1]
                          ELSE typeStats[i]])
             ELSE IF <<type>> \in ObjectPrototypeKeys
             THEN TypeStats(Tail(tasks), typeStats)
             ELSE TypeStats(Tail(tasks),
                      Append(typeStats, [name |-> type, duration |-> dur, count |-> 1,
                                         color |-> task.colorScheme.primary]))

\* A percentage that would be cut to one decimal instead of rounded.
PercentageTruncated(duration, total) ==
    IF total > 0 THEN (1000 * duration) \div total ELSE 0

\* ((stats.duration / total) * 100).toFixed(1), in tenths of a percent;
\* '0.0' when total is not positive.
Percentage(duration, total) ==
    IF total > 0 THEN (2000 * duration + total) \div (2 * total) ELSE 0

\* Array.prototype.sort((a, b) => b.duration - a.duration): stable, descending.
RECURSIVE InsertByDuration(_, _)
InsertByDuration(sorted, e) ==
    IF sorted = <<>> THEN <<e>>
    ELSE IF Head(sorted).duration >= e.duration
         THEN <<Head(sorted)>> \o InsertByDuration(Tail(sorted), e)
         ELSE <<e>> \o sorted

RECURSIVE SortByDuration(_)
SortByDuration(entries) ==
    IF entries = <<>> THEN <<>>
    ELSE InsertByDuration(SortByDuration(SubSeq(entries, 1, Len(entries) - 1)),
                          entries[Len(entries)])

typeBreakdown(tasks) ==
    IF Len(tasks) = 0 THEN <<>>
    ELSE LET typeStats == TypeStats(tasks, <<>>)
             total     == totalDurationSum(tasks)
             entries   == [i \in 1..Len(typeStats) |->
                              [name              |-> typeStats[i].name,
                               duration          |-> typeStats[i].duration,
                               count             |-> typeStats[i].count,
                               percentage        |-> Percentage(typeStats[i].duration, total),
                               formattedDuration |-> StatsFormatTime(typeStats[i].duration),
                               color             |-> typeStats[i].color]]
         IN  SortByDuration(entries)

(***************************************************************************)
(* SpecStats: typeBreakdown applied to                                     *)
(*   "normalized": the tasks processData yields (default configuration, so *)
(*                 filteredTasks is the whole list);                       *)
(*   "typed":      tasks that carry their category in `type`, at most      *)
(*                 MaxStatRecs of them, durations 0..MaxStatDuration; the  *)
(*                 i-th new category of a list is StatTypes[i];            *)
(*   "inherited":  typed tasks among which a category is a property name   *)
(*                 of Object.prototype.                                    *)
(***************************************************************************)
StatTypes == <<"ROM", "MEM", "INPUT", "BINARY", "ARITH", "KECCAKF", "Main", "OTHER">>

TypedTask(type, d) ==
    [type        |-> type,
     colorScheme |-> getColorForTask(<<type>>),
     segments    |-> <<[start |-> 0, end |-> d, duration |-> d]>>]

StatItems ==
    [name : {<<"ROM", "a">>, <<"MEM", "b">>}, start : {None},
     duration : {Some(1), Some(2)}, end : {None}]

StatInputs ==
    {[kind |-> "typed", tasks |-> <<>>, used |-> 0]}
    \cup {[kind |-> "normalized", tasks |-> processData(p), used |-> 0] :
              p \in SeqsUpTo(StatItems, MaxMixedRecs)}
    \cup {[kind |-> "inherited", tasks |-> l, used |-> 0] :
              l \in SeqsUpTo({TypedTask(t, d) : t \in {"ROM", "constructor"},
                                                d \in 1..MaxStatDuration}, MaxMixedRecs)}

InitStats ==
    /\ arg \in StatInputs
    /\ res = None
    /\ lastOp = "init"
    /\ ChartIdle

\* One more typed task in the list handed to the component.
AddTypedTask ==
    /\ lastOp = "init"
    /\ arg.kind = "typed"
    /\ Len(arg.tasks) < MaxStatRecs
    /\ \E t \in 1..(arg.used + 1), d \in 0..MaxStatDuration :
          arg' = [arg EXCEPT !.tasks = Append(@, TypedTask(StatTypes[t], d)),
                             !.used  = IF t > @ THEN t ELSE @]
    /\ UNCHANGED <<res, lastOp, chartVars>>

Aggregate ==
    /\ lastOp = "init"
    /\ res' = Some(typeBreakdown(arg.tasks))
    /\ lastOp' = "typeBreakdown"
    /\ UNCHANGED <<arg, chartVars>>

NextStats == AddTypedTask \/ Aggregate

SpecStats == InitStats /\ [][NextStats]_vars

\* The category of a task: its `type` if it carries one, else the prefix of
\* its base name.
CategoryOf(task) == IF "type" \in DOMAIN task THEN task.type ELSE TypeOf(task)

Categories(tasks) == {CategoryOf(tasks[i]) : i \in 1..Len(tasks)}

RECURSIVE CategoryTotal(_, _)
CategoryTotal(tasks, cat) ==
    IF tasks = <<>> THEN 0
    ELSE (IF CategoryOf(Head(tasks)) = cat THEN Head(tasks).segments[1].duration ELSE 0)
         + CategoryTotal(Tail(tasks), cat)

CategoryCount(tasks, cat) ==
    Cardinality({i \in 1..Len(tasks) : CategoryOf(tasks[i]) = cat})

OneEntryPerCategory(tasks, out) ==
    /\ {out[i].name : i \in 1..Len(out)} = Categories(tasks)
    /\ Len(out) = Cardinality(Categories(tasks))
    /\ \A i \in 1..Len(out) :
          /\ out[i].duration = CategoryTotal(tasks, out[i].name)
          /\ out[i].count = CategoryCount(tasks, out[i].name)

\* C7: over the (filtered) intervals the normalizer produced, typeBreakdown
\* returns one entry per distinct category of the input, with totalDuration
\* the sum of that category's durations and count the number of its intervals.
C7_OneEntryPerCategoryOfNormalized ==
    (lastOp = "typeBreakdown" /\ arg.kind = "normalized") =>
        OneEntryPerCategory(arg.tasks, Val(res))

\* The same over tasks that carry `type` with categories that are not
\* properties of Object.prototype.
C7_OneEntryPerCategoryOfTyped ==
    (lastOp = "typeBreakdown" /\ arg.kind = "typed") =>
        OneEntryPerCategory(arg.tasks, Val(res))

Abs(x) == IF x < 0 THEN 0 - x ELSE x

RECURSIVE SumPercentages(_)
SumPercentages(out) ==
    IF out = <<>> THEN 0 ELSE Head(out).percentage + SumPercentages(Tail(out))

\* C8: each entry's percentage is 100 * categoryTotal / denominatorTotal (to
\* the one decimal reported: tenths of a percent, nearest), 0.0 when the
\* denominator is 0, and the entries are in descending order of totalDuration.
C8_PercentageAndOrder ==
    (lastOp = "typeBreakdown" /\ arg.kind # "normalized") =>
        LET out   == Val(res)
            total == SumSeq([i \in 1..Len(arg.tasks) |-> arg.tasks[i].segments[1].duration])
        IN  /\ \A i \in 1..Len(out) :
                  LET catTotal == CategoryTotal(arg.tasks, out[i].name)
                  IN  /\ total = 0 => out[i].percentage = 0
                      /\ total > 0 =>
                            2 * Abs(out[i].percentage * total - 1000 * catTotal) <= total
            /\ \A i \in 1..(Len(out) - 1) : out[i].duration >= out[i + 1].duration

\* Two categories with different shares, the later one the larger.
C8_Witness ==
    /\ lastOp = "typeBreakdown"
    /\ arg.kind = "typed"
    /\ Len(Val(res)) = 2
    /\ Val(res)[1].name = "MEM" /\ Val(res)[1].percentage = 667
    /\ Val(res)[2].name = "ROM" /\ Val(res)[2].percentage = 333

\* C9: over the full interval set against its own (positive) total, the
\* reported percentages sum to 100.0 within 0.1, for any number of categories.
C9_PercentagesSumTo100 ==
    (lastOp = "typeBreakdown" /\ arg.kind = "typed" /\ totalDurationSum(arg.tasks) > 0) =>
        Abs(SumPercentages(Val(res)) - 1000) <= 1

\* What the one-decimal rounding does give: within 0.05 per category.
C9_PercentagesSumWithinRounding ==
    (lastOp = "typeBreakdown" /\ arg.kind = "typed" /\ totalDurationSum(arg.tasks) > 0) =>
        2 * Abs(SumPercentages(Val(res)) - 1000) <= Len(Val(res))

(***************************************************************************)
(* Adaptive formatter (ChartLegend.vue, formatDuration)                    *)
(*                                                                         *)
(* A count of nanoseconds is kept in two limbs, hi * 10^6 + lo with        *)
(* 0 <= lo < 10^6, because 60_000_000_000 exceeds the model checker's      *)
(* integers. n.toFixed(3) is the value in thousandths of the unit, rounded *)
(* to nearest (half up).                                                   *)
(***************************************************************************)
Limb == 1000000

Nanos(hi, lo) == [hi |-> hi, lo |-> lo]

AtLeast(a, b) == a.hi > b.hi \/ (a.hi = b.hi /\ a.lo >= b.lo)

NanosPerMinute == Nanos(60000, 0)      \* 60_000_000_000
NanosPerSecond == Nanos(1000, 0)       \* 1_000_000_000
NanosPerMilli  == Nanos(1, 0)          \* 1_000_000
NanosPerMicro  == Nanos(0, 1000)       \* 1_000

\* (nanoseconds / 60_000_000_000).toFixed(3), in thousandths of a minute
MinutesFixed3(x) ==
    (x.hi \div 60) + (((x.hi % 60) * Limb + x.lo + 30 * Limb) \div (60 * Limb))

\* (nanoseconds / 1_000_000_000).toFixed(3), in thousandths of a second
SecondsFixed3(x) == x.hi + (IF 2 * x.lo >= Limb THEN 1 ELSE 0)

\* (nanoseconds / 1_000_000).toFixed(3), in thousandths of a millisecond
MillisFixed3(x) == x.hi * 1000 + ((x.lo + 500) \div 1000)

MoreThan(a, b) == a.hi > b.hi \/ (a.hi = b.hi /\ a.lo > b.lo)

\* A formatter that would change unit only above each threshold.
formatDurationAbove(nanoseconds) ==
    IF MoreThan(nanoseconds, NanosPerMinute)
    THEN [value |-> MinutesFixed3(nanoseconds), decimals |-> 3, unit |-> "min"]
    ELSE IF MoreThan(nanoseconds, NanosPerSecond)
    THEN [value |-> SecondsFixed3(nanoseconds), decimals |-> 3, unit |-> "s"]
    ELSE IF MoreThan(nanoseconds, NanosPerMilli)
    THEN [value |-> MillisFixed3(nanoseconds), decimals |-> 3, unit |-> "ms"]
    ELSE IF MoreThan(nanoseconds, NanosPerMicro)
    THEN [value |-> nanoseconds.lo, decimals |-> 3, unit |-> "us"]
    ELSE [value |-> nanoseconds.lo, decimals |-> 0, unit |-> "ns"]

formatDuration(nanoseconds) ==
    IF AtLeast(nanoseconds, NanosPerMinute)
    THEN [value |-> MinutesFixed3(nanoseconds), decimals |-> 3, unit |-> "min"]
    ELSE IF AtLeast(nanoseconds, NanosPerSecond)
    THEN [value |-> SecondsFixed3(nanoseconds), decimals |-> 3, unit |-> "s"]
    ELSE IF AtLeast(nanoseconds, NanosPerMilli)
    THEN [value |-> MillisFixed3(nanoseconds), decimals |-> 3, unit |-> "ms"]
    ELSE IF AtLeast(nanoseconds, NanosPerMicro)
    THEN [value |-> nanoseconds.lo, decimals |-> 3, unit |-> "us"]
    ELSE [value |-> nanoseconds.lo, decimals |-> 0, unit |-> "ns"]

(***************************************************************************)
(* SpecFmt: formatDuration applied to the durations around every unit      *)
(* boundary.                                                               *)
(***************************************************************************)
FmtHi == {0, 1, 2, 999, 1000, 1001, 59999, 60000, 60001, 119999, 120000}

FmtLo == {0, 1, 999, 1000, 1001, 499999, 500000, 999999}

InitFmt ==
    /\ arg \in {Nanos(hi, lo) : hi \in FmtHi, lo \in FmtLo}
    /\ res = None
    /\ lastOp = "init"
    /\ ChartIdle

Format ==
    /\ lastOp = "init"
    /\ res' = Some(formatDuration(arg))
    /\ lastOp' = "formatDuration"
    /\ UNCHANGED <<arg, chartVars>>

NextFmt == Format

SpecFmt == InitFmt /\ [][NextFmt]_vars

\* The magnitude of x is at least 1 in the unit.
UnitFits(x, unit) ==
    CASE unit = "min" -> x.hi >= 60000
      [] unit = "s"   -> x.hi >= 1000
      [] unit = "ms"  -> x.hi >= 1
      [] unit = "us"  -> x.hi >= 1 \/ x.lo >= 1000
      [] unit = "ns"  -> x.hi >= 1 \/ x.lo >= 1

UnitsDescending == <<"min", "s", "ms", "us", "ns">>

\* C10: formatDuration selects the largest of min, s, ms, us, ns in which the
\* magnitude is at least 1 (ns when there is none), with 3 decimals (0 for
\* ns); 1_500_000 gives 1.500 ms, 59_999_999_999 stays in seconds and
\* 60_000_000_000 gives 1.000 min.
C10_LargestUnitWithMagnitudeOne ==
    lastOp = "formatDuration" =>
        LET out == Val(res)
            fit == {i \in 1..5 : UnitFits(arg, UnitsDescending[i])}
        IN  /\ \E i \in 1..5 :
                  /\ out.unit = UnitsDescending[i]
                  /\ (fit # {} => i \in fit /\ \A j \in fit : i <= j)
                  /\ (fit = {} => i = 5)
            /\ out.decimals = (IF out.unit = "ns" THEN 0 ELSE 3)
            /\ arg = Nanos(1, 500000) => out = [value |-> 1500, decimals |-> 3, unit |-> "ms"]
            /\ arg = Nanos(59999, 999999) => out.unit = "s"
            /\ arg = Nanos(60000, 0) => out = [value |-> 1000, decimals |-> 3, unit |-> "min"]

\* The minute boundary itself has been formatted.
C10_Witness ==
    /\ lastOp = "formatDuration"
    /\ arg = Nanos(60000, 0)
    /\ Val(res).unit = "min"

(***************************************************************************)
(* The chart component (Chart.vue) with its configuration panel            *)
(* (ChartConfig.vue). The panel is shown while isMounted and allTasks is   *)
(* not empty; its form (localConfig) is read by applyConfig only, and      *)
(* every content of it can be reached by editing its fields, so the form   *)
(* content is the input of ApplyConfig.                                    *)
(***************************************************************************)
Record(name, start, duration) ==
    [name |-> name, start |-> start, duration |-> duration, end |-> None]

\* What fetch(path) and response.json() give when they succeed, per path
\* ("a" is /data/a.json). Times are whole minutes, so that the divisions by
\* 60_000_000 of timeRange and renderChart are exact.
Files ==
    [a     |-> <<Record(<<"ROM", "a">>, Some(MicrosPerMin), Some(2 * MicrosPerMin)),
                Record(<<"MEM", "b">>, Some(2 * MicrosPerMin), Some(MicrosPerMin))>>,
     b     |-> <<Record(<<"INPUT", "c", "d">>, None, Some(MicrosPerMin)),
                Record(<<"INPUT", "c", "d">>, None, Some(MicrosPerMin))>>,
     empty |-> <<>>]

Paths == DOMAIN Files

Min(S) == CHOOSE x \in S : \A y \in S : x <= y
Max(S) == CHOOSE x \in S : \A y \in S : x >= y

\* computed timeRange, in minutes
timeRangeOf(tasks) ==
    IF Len(tasks) = 0 THEN [min |-> 0, max |-> 0]
    ELSE LET allTimes == UNION {{tasks[i].segments[1].start, tasks[i].segments[1].end} :
                                    i \in 1..Len(tasks)}
         IN  [min |-> Min(allTimes) \div MicrosPerMin, max |-> Max(allTimes) \div MicrosPerMin]

typesOf(tasks) == {TypeOf(tasks[i]) : i \in 1..Len(tasks)}

\* The data renderChart hands to the chart, one item per filtered task.
ChartItem(task) ==
    [x |-> <<task.segments[1].start \div MicrosPerMin, task.segments[1].end \div MicrosPerMin>>,
     y |-> task.name,
     backgroundColor |-> task.colorScheme.primary,
     borderColor |-> task.colorScheme.border,
     custom |-> [duration |-> task.segments[1].duration \div MicrosPerMin,
                 task |-> task.originalName[1],
                 subtask |-> IF Len(task.originalName) >= 2 THEN task.originalName[2] ELSE ""]]

ChartData(tasks) == [i \in 1..Len(tasks) |-> ChartItem(tasks[i])]

\* new Chart(...): a chart that shows data
NewChart(data) == [data |-> data, destroyed |-> FALSE]

\* chart.destroy(): the number of undestroyed Chart objects afterwards
\* (destroying a destroyed chart releases nothing).
AfterDestroy(chart, count) == IF chart.destroyed THEN count ELSE count - 1

\* A renderChart that would start whatever the flag says.
RenderCallUnguarded(rs, tasks, cfg) ==
    IF Len(FilterTasks(tasks, cfg)) = 0 THEN rs
    ELSE [isRendering |-> TRUE, chartInstance |-> None,
          instances |-> IF IsDefined(rs.chartInstance)
                        THEN AfterDestroy(Val(rs.chartInstance), rs.instances)
                        ELSE rs.instances,
          render |-> Append(rs.render, [pc |-> "timeout", data |-> <<>>])]

\* renderChart up to its first await. rs holds isRendering, chartInstance,
\* the undestroyed charts and the suspended calls.
RenderCall(rs, tasks, cfg) ==
    IF Len(FilterTasks(tasks, cfg)) = 0 \/ rs.isRendering THEN rs
    ELSE [isRendering |-> TRUE, chartInstance |-> None,
          instances |-> IF IsDefined(rs.chartInstance)
                        THEN AfterDestroy(Val(rs.chartInstance), rs.instances)
                        ELSE rs.instances,
          render |-> Append(rs.render, [pc |-> "timeout", data |-> <<>>])]

RenderState ==
    [isRendering |-> isRendering, chartInstance |-> chartInstance,
     instances |-> instances, render |-> render]

SetRenderState(rs) ==
    /\ isRendering' = rs.isRendering
    /\ chartInstance' = rs.chartInstance
    /\ instances' = rs.instances
    /\ render' = rs.render

\* The callback of watch(filteredTasks), run when the handler that changed
\* allTasks or config has returned.
WatchFilteredTasks(rs, tasks, cfg) ==
    IF isMounted /\ ~unmounted /\ Len(FilterTasks(tasks, cfg)) > 0
    THEN RenderCall(rs, tasks, cfg) ELSE rs

\* loadData up to its first await
LoadStart ==
    /\ loading' = TRUE
    /\ error' = None
    /\ loads' = Append(loads, [pc |-> "import", path |-> ""])

Mount ==
    /\ ~isMounted
    /\ isMounted' = TRUE
    /\ LoadStart
    /\ lastOp' = "onMounted"
    /\ UNCHANGED <<allTasks, config, isRendering, chartInstance, unmounted, instances,
                   jsonPath, render, arg, res>>

\* The parent changes the jsonPath prop; the watcher starts a load once
\* mounted. At most `cap` loads are followed at a time.
ChangePathWithin(p, cap) ==
    /\ ~unmounted
    /\ p # jsonPath
    /\ jsonPath' = p
    /\ IF isMounted
       THEN Len(loads) < cap /\ LoadStart
       ELSE UNCHANGED <<loading, error, loads>>
    /\ lastOp' = "watch(jsonPath)"
    /\ UNCHANGED <<isMounted, allTasks, config, isRendering, chartInstance, unmounted,
                   instances, render, arg, res>>

ChangePath(p) == ChangePathWithin(p, MaxLoads)

RemoveAt(s, i) == SubSeq(s, 1, i - 1) \o SubSeq(s, i + 1, Len(s))

\* The imports have resolved: fetch(props.jsonPath) reads the prop now.
LoadFetch(i) ==
    /\ loads[i].pc = "import"
    /\ loads' = [loads EXCEPT ![i] = [pc |-> "fetch", path |-> jsonPath]]
    /\ lastOp' = "loadData:fetch"
    /\ UNCHANGED <<isMounted, loading, error, allTasks, config, isRendering,
                   chartInstance, unmounted, instances, jsonPath, render, arg, res>>

\* A failure path that would also clear the interval list and the chart.
LoadFailClearing(i) ==
    /\ i \in 1..Len(loads)
    /\ error' = Some("Error loading file")
    /\ loading' = FALSE
    /\ loads' = RemoveAt(loads, i)
    /\ allTasks' = <<>>
    /\ chartInstance' = None
    /\ lastOp' = "loadData:failed"
    /\ UNCHANGED <<isMounted, config, isRendering, unmounted, instances, jsonPath,
                   render, arg, res>>

\* An import or the fetch rejects, or the response is not ok or not JSON.
LoadFail(i) ==
    /\ i \in 1..Len(loads)
    /\ error' = Some("Error loading file")
    /\ loading' = FALSE
    /\ loads' = RemoveAt(loads, i)
    /\ lastOp' = "loadData:failed"
    /\ UNCHANGED <<isMounted, allTasks, config, isRendering, chartInstance,
                   unmounted, instances, jsonPath, render, arg, res>>

\* response.json() has resolved: the rest of loadData.
LoadResolve(i) ==
    /\ loads[i].pc = "fetch"
    /\ LET tasks == processData(Files[loads[i].path])
           range == timeRangeOf(tasks)
           cfg   == [showAll |-> TRUE, selectedTypes |-> typesOf(tasks), timeMode |-> "all",
                     startTime |-> range.min, endTime |-> range.max]
       IN  /\ allTasks' = tasks
           /\ IF Len(tasks) = 0
              THEN /\ error' = Some("No valid data in JSON")
                   /\ UNCHANGED <<config, isRendering, chartInstance, instances, render>>
              ELSE /\ config' = cfg
                   /\ SetRenderState(WatchFilteredTasks(RenderCall(RenderState, tasks, cfg),
                                                        tasks, cfg))
                   /\ UNCHANGED error
    /\ loading' = FALSE
    /\ loads' = RemoveAt(loads, i)
    /\ lastOp' = "loadData:done"
    /\ UNCHANGED <<isMounted, unmounted, jsonPath, arg, res>>

\* What the panel's form can hold over the current types: showAll checks
\* every type (toggleShowAll); the window is edited only in custom mode and
\* keeps the values synchronised from the configuration otherwise.
Proposals ==
    {c \in [showAll : BOOLEAN, selectedTypes : SUBSET availableTypes,
            timeMode : {"all", "custom"},
            startTime : 0..MaxWindow \cup {config.startTime},
            endTime : 0..MaxWindow \cup {config.endTime}] :
        /\ c.showAll => c.selectedTypes = availableTypes
        /\ c.timeMode = "all" =>
              c.startTime = config.startTime /\ c.endTime = config.endTime}

\* A validation that would let an empty window (start = end) through.
ConfigRejectedInverted(local) ==
    local.timeMode = "custom" /\ local.startTime > local.endTime

\* applyConfig: the validation that returns before the emit
ConfigRejected(local) ==
    local.timeMode = "custom" /\ local.startTime >= local.endTime

\* Apply is clicked with the form holding p: applyConfig, and when it emits,
\* handleConfigChange and the watchers on config.
ApplyConfig(p) ==
    /\ isMounted /\ ~unmounted /\ Len(allTasks) > 0
    /\ IF ConfigRejected(p)
       THEN /\ lastOp' = "applyConfig:alert"
            /\ UNCHANGED <<config, isRendering, chartInstance, instances, render>>
       ELSE /\ lastOp' = "applyConfig:emit"
            /\ config' = p
            /\ SetRenderState(
                  WatchFilteredTasks(
                      IF Len(allTasks) > 0 THEN RenderCall(RenderState, allTasks, p)
                      ELSE RenderState,
                      allTasks, p))
    /\ UNCHANGED <<isMounted, loading, error, allTasks, unmounted, jsonPath, loads, arg, res>>

\* renderChart after its setTimeout: the data are read from filteredTasks now.
RenderBuild ==
    /\ \E j \in 1..Len(render) :
          /\ render[j].pc = "timeout"
          /\ render' = [render EXCEPT ![j] = [pc |-> "import", data |-> ChartData(filteredTasks)]]
    /\ lastOp' = "renderChart:data"
    /\ UNCHANGED <<isMounted, loading, error, allTasks, config, isRendering,
                   chartInstance, unmounted, instances, jsonPath, loads, arg, res>>

\* The template ref of the canvas (v-if="isMounted"): the element while the
\* component is mounted, null before and after. The page is patched before
\* any timer or import of a suspended call resumes.
chartRef == IF isMounted /\ ~unmounted THEN Some("canvas") ELSE None

\* renderChart after import('chart.js') with the canvas in place: the chart
\* is created, or the constructor throws; finally clears the flag.
RenderCreate(ok) ==
    /\ IsDefined(chartRef)
    /\ \E j \in 1..Len(render) :
          /\ render[j].pc = "import"
          /\ IF ok
             THEN /\ chartInstance' = Some(NewChart(render[j].data))
                  /\ instances' = instances + 1
                  /\ UNCHANGED error
             ELSE /\ error' = Some("Error rendering chart")
                  /\ UNCHANGED <<chartInstance, instances>>
          /\ render' = RemoveAt(render, j)
    /\ isRendering' = FALSE
    /\ lastOp' = "renderChart:done"
    /\ UNCHANGED <<isMounted, loading, allTasks, config, unmounted, jsonPath, loads, arg, res>>

\* renderChart after import('chart.js') when chartRef.value is null (the
\* canvas has left the page while the call was suspended): it returns
\* without a chart, and finally clears the flag.
RenderNoCanvas ==
    /\ ~IsDefined(chartRef)
    /\ \E j \in 1..Len(render) :
          /\ render[j].pc = "import"
          /\ render' = RemoveAt(render, j)
    /\ isRendering' = FALSE
    /\ lastOp' = "renderChart:no canvas"
    /\ UNCHANGED <<isMounted, loading, error, allTasks, config, chartInstance,
                   unmounted, instances, jsonPath, loads, arg, res>>

\* The component is unmounted: onUnmounted destroys the chart it holds (the
\* ref keeps the destroyed object); the watchers stop and the canvas leaves
\* the page, the suspended loads and renders go on.
Unmount ==
    /\ isMounted /\ ~unmounted
    /\ unmounted' = TRUE
    /\ IF IsDefined(chartInstance)
       THEN /\ chartInstance' = Some([Val(chartInstance) EXCEPT !.destroyed = TRUE])
            /\ instances' = AfterDestroy(Val(chartInstance), instances)
       ELSE UNCHANGED <<chartInstance, instances>>
    /\ lastOp' = "onUnmounted"
    /\ UNCHANGED <<isMounted, loading, error, allTasks, config, isRendering,
                   jsonPath, loads, render, arg, res>>

Init ==
    /\ ChartNew
    /\ lastOp = "init"
    /\ arg = None
    /\ res = None
    /\ jsonPath \in Paths

Next ==
    \/ Mount
    \/ \E p \in Paths : ChangePath(p)
    \/ \E i \in 1..Len(loads) : LoadFetch(i)
    \/ \E i \in 1..Len(loads) : LoadFail(i)
    \/ \E i \in 1..Len(loads) : LoadResolve(i)
    \/ \E p \in Proposals : ApplyConfig(p)
    \/ RenderBuild
    \/ \E ok \in BOOLEAN : RenderCreate(ok)
    \/ RenderNoCanvas
    \/ Unmount

Spec == Init /\ [][Next]_vars

\* The forms in custom time mode whose window is empty or reversed.
RejectedForms ==
    {[showAll |-> sa, selectedTypes |-> st, timeMode |-> "custom",
      startTime |-> w[1], endTime |-> w[2]] :
        sa \in BOOLEAN, st \in SUBSET availableTypes,
        w \in {v \in (0..MaxWindow) \X (0..MaxWindow) : v[1] >= v[2]}}

\* C6: a proposal in custom time mode with startTime >= endTime is rejected:
\* applyConfig emits nothing, so the configuration of the chart and its
\* rendering stay as they were; hence an active configuration in custom time
\* mode always has startTime < endTime.
C6_InvalidWindowRejected ==
    /\ [](config.timeMode = "custom" => config.startTime < config.endTime)
    /\ [][\/ /\ config' = config
             /\ lastOp' = "applyConfig:alert"
             /\ <<isRendering, chartInstance, render, allTasks>>
                    ' = <<isRendering, chartInstance, render, allTasks>>
          \/ \A p \in RejectedForms : ~ApplyConfig(p)]_vars

\* A proposal has been rejected while a custom window that hides an interval
\* is active and drawn.
C6_Witness ==
    /\ lastOp = "applyConfig:alert"
    /\ config.timeMode = "custom"
    /\ Len(filteredTasks) < Len(allTasks)
    /\ IsDefined(chartInstance)
    /\ Len(Val(chartInstance).data) = Len(filteredTasks)

(***************************************************************************)
(* Event form (Chart.vue, second script): processData({h, t, c, d}) and    *)
(* the data renderChart(Chart, tasks) derives from the segments.           *)
(*                                                                         *)
(* A segment is [start, end] with end an optional field: push({start})     *)
(* leaves end undefined.                                                   *)
(***************************************************************************)
MaxEvents == 3

MaxTasks == 2

SyntheticSpan == 100

\* The task tables t with their colours c
TaskTables ==
    {[t |-> <<>>, c |-> <<>>],
     [t |-> <<"A">>, c |-> <<"#111">>],
     [t |-> <<"A", "B">>, c |-> <<"#111", "#222">>]}

Epochs == {0, 1000}

Offsets == {0, 50, 100}

\* One element of d: [taskId, action, offset]; action 0 is begin.
Events == (0..(MaxTasks - 1)) \X {0, 1} \X Offsets

\* t.map((name, i) => ({name, color: c[i], segments: []}))
EventTasks(t, c) == [i \in 1..Len(t) |-> [name |-> t[i], color |-> c[i], segments |-> <<>>]]

\* The body of d.forEach on the tasks built so far. tasks[taskId] is
\* undefined for an index outside the table, and reading its segments throws.
EventStep(st, ev) ==
    IF st.threw THEN st
    ELSE IF ev[1] + 1 > Len(st.tasks) THEN [threw |-> TRUE, tasks |-> <<>>]
    ELSE LET time == st.h + ev[3]
             id   == ev[1] + 1
             segs == st.tasks[id].segments
         IN  IF ev[2] = 0
             THEN [st EXCEPT !.tasks[id].segments = Append(segs, [start |-> time, end |-> None])]
             ELSE IF Len(segs) > 0
             THEN [st EXCEPT !.tasks[id].segments[Len(segs)].end = Some(time)]
             ELSE st

RECURSIVE EventFold(_, _)
EventFold(st, d) ==
    IF d = <<>> THEN st ELSE EventFold(EventStep(st, Head(d)), Tail(d))

\* processData of the event form: [threw, tasks]
processEvents(payload) ==
    LET out == EventFold([threw |-> FALSE, h |-> payload.h,
                          tasks |-> EventTasks(payload.t, payload.c)], payload.d)
    IN  [threw |-> out.threw, tasks |-> out.tasks]

\* renderChart: const duration = seg.end ? seg.end - seg.start : null
SegmentDuration(seg) ==
    IF IsDefined(seg.end) /\ Val(seg.end) # 0 THEN Some(Val(seg.end) - seg.start) ELSE None

\* renderChart: the pair of points of a segment, x: seg.end || seg.start + 100
SegmentPoints(seg) ==
    [from |-> seg.start,
     to |-> IF IsDefined(seg.end) /\ Val(seg.end) # 0 THEN Val(seg.end)
            ELSE seg.start + SyntheticSpan,
     duration |-> SegmentDuration(seg)]

EventDatasets(tasks) ==
    [i \in 1..Len(tasks) |->
        [label |-> tasks[i].name,
         data |-> [j \in 1..Len(tasks[i].segments) |-> SegmentPoints(tasks[i].segments[j])]]]

\* onMounted of the event form after response.json(): the error message and
\* the chart that results.
EventLoad(payload) ==
    LET out == processEvents(payload)
    IN  IF out.threw
        THEN [error |-> Some("TypeError"), chart |-> None, tasks |-> <<>>]
        ELSE IF Len(out.tasks) = 0
        THEN [error |-> Some("No hay datos validos en el JSON"), chart |-> None, tasks |-> out.tasks]
        ELSE [error |-> None, chart |-> Some(EventDatasets(out.tasks)), tasks |-> out.tasks]

(***************************************************************************)
(* SpecEvent: an event payload is received event by event, then loaded.    *)
(***************************************************************************)
InitEvent ==
    /\ arg \in {[h |-> h, t |-> tt.t, c |-> tt.c, d |-> <<>>] : h \in Epochs, tt \in TaskTables}
    /\ res = None
    /\ lastOp = "init"
    /\ ChartIdle

AddEvent(ev) ==
    /\ lastOp = "init"
    /\ Len(arg.d) < MaxEvents
    /\ arg' = [arg EXCEPT !.d = Append(@, ev)]
    /\ UNCHANGED <<res, lastOp, chartVars>>

LoadEvents ==
    /\ lastOp = "init"
    /\ res' = Some(EventLoad(arg))
    /\ lastOp' = "processData(event)"
    /\ UNCHANGED <<arg, chartVars>>

NextEvent == (\E ev \in Events : AddEvent(ev)) \/ LoadEvents

SpecEvent == InitEvent /\ [][NextEvent]_vars

Loaded == lastOp = "processData(event)"

\* The payload is one begin and then one end of the same task of the table.
BeginThenEnd ==
    /\ Len(arg.d) = 2
    /\ arg.d[1][2] = 0 /\ arg.d[2][2] = 1
    /\ arg.d[1][1] = arg.d[2][1]
    /\ arg.d[1][1] + 1 <= Len(arg.t)

OneInterval ==
    LET id    == arg.d[1][1] + 1
        segs  == Val(res).tasks[id].segments
        start == arg.h + arg.d[1][3]
        end   == arg.h + arg.d[2][3]
    IN  /\ Len(segs) = 1
        /\ segs[1].start = start
        /\ segs[1].end = Some(end)
        /\ Val(Val(res).chart)[id].data[1].duration = Some(end - start)
        /\ Val(Val(res).chart)[id].data[1].to = end

\* C11: a begin followed by an end of the same task gives exactly one
\* interval with start = h + beginOffset, end = h + endOffset and
\* duration = end - start.
C11_BeginEndGivesOneInterval ==
    (Loaded /\ BeginThenEnd) => OneInterval

\* The same when the end does not fall on absolute time 0.
C11_BeginEndGivesOneIntervalNonZeroEnd ==
    (Loaded /\ BeginThenEnd /\ arg.h + arg.d[2][3] # 0) => OneInterval

\* The example of the claim: h = 1000, events [0,0,0], [0,1,50].
C11_Example ==
    /\ Loaded
    /\ arg.h = 1000 /\ arg.t = <<"A">> /\ arg.d = << <<0, 0, 0>>, <<0, 1, 50>> >>
    /\ OneInterval

Orderings(n) == {f \in [1..n -> 1..n] : \A i, j \in 1..n : f[i] = f[j] => i = j}

DistinctTimes(d) == \A i, j \in 1..Len(d) : d[i][3] = d[j][3] => i = j

\* C12: events are processed in order of absolute time, so every permutation
\* of the same events (with distinct times) gives the same intervals per task.
C12_OrderOfEventsIrrelevant ==
    (Loaded /\ DistinctTimes(arg.d)) =>
        \A f \in Orderings(Len(arg.d)) :
            LET other == processEvents([arg EXCEPT !.d = [i \in 1..Len(arg.d) |-> arg.d[f[i]]]])
            IN  /\ other.threw = processEvents(arg).threw
                /\ \A i \in 1..Len(other.tasks) :
                      Range(other.tasks[i].segments) = Range(processEvents(arg).tasks[i].segments)

OpenSegments(task) == {j \in 1..Len(task.segments) : ~IsDefined(task.segments[j].end)}

\* C13: a begin for a task whose previous interval is open closes that
\* interval at the new begin time, so a task never has two open intervals.
C13_AtMostOneOpenInterval ==
    Loaded =>
        \A i \in 1..Len(Val(res).tasks) :
            /\ Cardinality(OpenSegments(Val(res).tasks[i])) <= 1
            /\ \A j \in 1..(Len(Val(res).tasks[i].segments) - 1) :
                  IsDefined(Val(res).tasks[i].segments[j].end)

\* The payload without its last event
ButLast(payload) == [payload EXCEPT !.d = SubSeq(@, 1, Len(@) - 1)]

\* The last event of the payload is an end for a task of the table that has
\* no open interval when it arrives.
EndWithoutOpen ==
    /\ Len(arg.d) >= 1
    /\ arg.d[Len(arg.d)][2] = 1
    /\ ~processEvents(ButLast(arg)).threw
    /\ arg.d[Len(arg.d)][1] + 1 <= Len(arg.t)
    /\ OpenSegments(processEvents(ButLast(arg)).tasks[arg.d[Len(arg.d)][1] + 1]) = {}

\* C14: an end closes the most recent open interval of its task, and an end
\* for a task with no open interval is dropped: no interval changes and the
\* load is not aborted.
C14_EndWithoutOpenIsDropped ==
    (Loaded /\ EndWithoutOpen) =>
        /\ ~IsDefined(Val(res).error)
        /\ Val(res).tasks = processEvents(ButLast(arg)).tasks

\* The same for a task that has no interval at all yet.
C14_EndBeforeAnyBeginIsDropped ==
    (Loaded /\ EndWithoutOpen
        /\ processEvents(ButLast(arg)).tasks[arg.d[Len(arg.d)][1] + 1].segments = <<>>) =>
        /\ ~IsDefined(Val(res).error)
        /\ Val(res).tasks = processEvents(ButLast(arg)).tasks

\* The records before record i that carry no start
NoStartBefore(raw, i) == {j \in 1..(i - 1) : ~IsDefined(raw[j].start)}

\* The running cursor when record i is reached: the end of the last record
\* before it that had no start, 0 if there is none.
CursorAt(raw, out, i) ==
    IF NoStartBefore(raw, i) = {} THEN 0
    ELSE out[Max(NoStartBefore(raw, i))].segments[1].end

\* Interval i of out is what the cursor rule gives for record i of raw.
FollowsCursor(raw, out, i) ==
    LET start == IF IsDefined(raw[i].start) THEN Val(raw[i].start) ELSE CursorAt(raw, out, i)
        dur   == IF IsDefined(raw[i].duration) THEN Val(raw[i].duration) ELSE 0
    IN  /\ out[i].segments[1].start = start
        /\ out[i].segments[1].end =
              (IF IsDefined(raw[i].end) THEN Val(raw[i].end) ELSE start + dur)

\* C15: a record starts at its explicit start, else at the cursor, and ends
\* at its explicit end, else at start + duration; the cursor moves to that
\* end only after a record without start, so records without start follow
\* each other without gap from 0.
C15_RunningCursor ==
    lastOp = "processData" =>
        /\ Len(Normalized) = Len(arg)
        /\ \A i \in 1..Len(arg) : FollowsCursor(arg, Normalized, i)
        /\ \A i \in 1..Len(arg) :
              (\A j \in 1..i : ~IsDefined(arg[j].start)) =>
                  Normalized[i].segments[1].start =
                      (IF i = 1 THEN 0 ELSE Normalized[i - 1].segments[1].end)

\* A record without start, one with a start, and a third without start that
\* begins where the first ended.
C15_Witness ==
    /\ lastOp = "processData"
    /\ Len(arg) = 3
    /\ ~IsDefined(arg[1].start) /\ IsDefined(arg[2].start) /\ ~IsDefined(arg[3].start)
    /\ Normalized[1].segments[1].start = 0
    /\ Normalized[1].segments[1].end = 2 * MicrosPerMin
    /\ Normalized[2].segments[1].end = 3 * MicrosPerMin
    /\ Normalized[3].segments[1].start = 2 * MicrosPerMin

\* The records of the payload that carry no duration
Malformed(raw) == {k \in 1..Len(raw) : ~IsDefined(raw[k].duration)}

\* The payload with a duration given to its malformed records
WellFormed(raw) ==
    [k \in 1..Len(raw) |->
        IF k \in Malformed(raw) THEN [raw[k] EXCEPT !.duration = Some(2 * MicrosPerMin)]
        ELSE raw[k]]

C20_OneRenderAtATime ==
    /\ Len(render) <= 1
    /\ isRendering <=> Len(render) = 1

\* A configuration change has arrived while a call was past its timeout.
C20_Witness ==
    /\ lastOp = "applyConfig:emit"
    /\ isRendering
    /\ Len(render) = 1
    /\ render[1].pc = "import"

\* C17: when the normalization of a loaded payload gives no interval, the
\* load ends with an error message and without a chart: no chart instance is
\* displayed once it has completed, also when an earlier trace had one.
C17_EmptyTraceShowsNoChart ==
    (lastOp = "loadData:done" /\ Len(allTasks) = 0) =>
        /\ IsDefined(error)
        /\ ~IsDefined(chartInstance)

\* The part of C17 that the code does give: the error message.
C17_EmptyTraceSetsError ==
    (lastOp = "loadData:done" /\ Len(allTasks) = 0) => IsDefined(error)

\* C17 for the event form: a payload that yields no interval gives an error
\* and no chart, also when its task table is not empty.
C17_NoIntervalNoChartEventForm ==
    (Loaded /\ \A i \in 1..Len(Val(res).tasks) : Val(res).tasks[i].segments = <<>>) =>
        /\ IsDefined(Val(res).error)
        /\ ~IsDefined(Val(res).chart)

\* C18: a load that fails at fetch or parse sets the error message, and none
\* of its steps (start, fetch, failure) changes the interval list, the
\* active configuration or the chart instance.
C18_FailedLoadLeavesTraceInPlace ==
    [][/\ lastOp' \in {"onMounted", "watch(jsonPath)", "loadData:fetch", "loadData:failed"} =>
            <<allTasks, config, chartInstance>>' = <<allTasks, config, chartInstance>>
       /\ lastOp' = "loadData:failed" => IsDefined(error') /\ Len(loads') < Len(loads)]_vars

\* A load has failed while a trace is loaded and drawn.
C18_Witness ==
    /\ lastOp = "loadData:failed"
    /\ IsDefined(error)
    /\ Len(allTasks) > 0
    /\ IsDefined(chartInstance)
    /\ Len(Val(chartInstance).data) = Len(allTasks)

(***************************************************************************)
(* SpecLoad: the component with up to MaxInFlight loads in flight at a     *)
(* time and the configuration left as loadData sets it.                    *)
(***************************************************************************)
MaxInFlight == 2

NextLoad ==
    \/ Mount
    \/ \E p \in Paths : ChangePathWithin(p, MaxInFlight)
    \/ \E i \in 1..Len(loads) : LoadFetch(i)
    \/ \E i \in 1..Len(loads) : LoadFail(i)
    \/ \E i \in 1..Len(loads) : LoadResolve(i)
    \/ RenderBuild
    \/ \E ok \in BOOLEAN : RenderCreate(ok)
    \/ RenderNoCanvas
    \/ Unmount

SpecLoad == Init /\ [][NextLoad]_vars

\* C19: loads are last-write-wins: the result of a load is not applied when
\* a newer load has started, so once every load has completed the interval
\* list is the one of the newest source.
C19_NewestLoadWins ==
    /\ [][\A i \in 1..Len(loads) :
            (LoadResolve(i) /\ loads[i].path # jsonPath) => UNCHANGED allTasks]_vars
    /\ []((loads = <<>> /\ lastOp = "loadData:done") =>
             allTasks = processData(Files[jsonPath]))

\* The triple the fixed table gives to a category, DEFAULT for a category
\* that is not one of its keys.
TableTriple(type) == IF type \in DOMAIN ColorMap THEN ColorMap[type] ELSE ColorMap["DEFAULT"]

\* C23: getColorForTask is total: every task name gets a {primary,
\* secondary, border} triple, the same for the same category, and the
\* DEFAULT triple when the category is not a key of the table.
C23_ClassifierTotal ==
    lastOp = "processData" =>
        \A i \in 1..Len(Normalized) :
            Normalized[i].colorScheme = TableTriple(TypeOf(Normalized[i]))

\* The classifier on the categories that are not properties of
\* Object.prototype.
C23_ClassifierTotalOwnNames ==
    lastOp = "processData" =>
        \A i \in 1..Len(Normalized) :
            <<TypeOf(Normalized[i])>> \notin ObjectPrototypeKeys =>
                Normalized[i].colorScheme = TableTriple(TypeOf(Normalized[i]))

(***************************************************************************)
(* Legend (ChartLegend.vue). A text is the sequence of its characters, so  *)
(* that toLowerCase and includes are computed on it.                       *)
(***************************************************************************)
MaxLegendItems == 2

LowerChar(c) ==
    CASE c = "A" -> "a"
      [] c = "B" -> "b"
      [] OTHER -> c

\* String.prototype.toLowerCase
ToLowerCase(s) == [i \in 1..Len(s) |-> LowerChar(s[i])]

\* String.prototype.includes
Includes(s, q) ==
    \E k \in 0..(Len(s) - Len(q)) : SubSeq(s, k + 1, k + Len(q)) = q

\* The texts the legend is given and searched with ("" is <<>>).
LegendNames == {<<"A", "b">>, <<"a", "B", "a">>, <<"B">>}

LegendCategories == {<<"A">>, <<"a">>}

LegendSubtasks == {<<>>, <<"b">>}

LegendQueries == {<<>>, <<"a">>, <<"A", "B">>, <<"b">>, <<"b", "a">>}

LegendPicks == {<<>>, <<"A">>, <<"a">>}

\* One element of chartData as renderChart emits it; the duration is the
\* number stored in custom.duration.
LegendItems ==
    [y : LegendNames,
     custom : [task : LegendCategories, subtask : LegendSubtasks, duration : {1, 2}]]

\* The chartData prop as the component sees it: the default () => [] stands
\* in for undefined only.
PropChartData(passed) ==
    IF passed.kind = "undefined" THEN [kind |-> "array", items |-> <<>>] ELSE passed

\* A text filter that would compare the characters as they are.
MatchesQueryExact(item, legendFilter) ==
    \/ Includes(item.y, legendFilter)
    \/ Includes(item.custom.task, legendFilter)
    \/ Includes(item.custom.subtask, legendFilter)

\* The text predicate of filteredLegendItems
MatchesQuery(item, legendFilter) ==
    \/ Includes(ToLowerCase(item.y), ToLowerCase(legendFilter))
    \/ Includes(ToLowerCase(item.custom.task), ToLowerCase(legendFilter))
    \/ Includes(ToLowerCase(item.custom.subtask), ToLowerCase(legendFilter))

filteredLegendItems(chartData, legendFilter, selectedCategory) ==
    IF chartData.kind = "null" \/ Len(chartData.items) = 0 THEN <<>>
    ELSE LET ByText(item) == MatchesQuery(item, legendFilter)
             ByPick(item) == item.custom.task = selectedCategory
             afterText    == IF legendFilter # <<>> THEN SelectSeq(chartData.items, ByText)
                             ELSE chartData.items
         IN  IF selectedCategory # <<>> THEN SelectSeq(afterText, ByPick) ELSE afterText

\* uniqueCategories: props.chartData.map(...) throws on null. The sorted
\* array is given as the set of its elements.
uniqueCategories(chartData) ==
    IF chartData.kind = "null" THEN [threw |-> TRUE, value |-> {}]
    ELSE [threw |-> FALSE,
          value |-> {chartData.items[i].custom.task : i \in 1..Len(chartData.items)} \ {<<>>}]

\* taskTypeStats: {} when nothing is listed, else one entry per task type
\* (the types drawn here are not properties of Object.prototype).
taskTypeStats(items) ==
    [type \in {items[i].custom.task : i \in 1..Len(items)} |->
        LET of == {i \in 1..Len(items) : items[i].custom.task = type}
        IN  [totalDuration |-> SumSeq([i \in 1..Len(items) |->
                                          IF i \in of THEN items[i].custom.duration ELSE 0]),
             count |-> Cardinality(of)]]

\* totalDuration: '0.00' when nothing is listed, else formatDuration of the sum.
LegendTotalDuration(items) ==
    IF Len(items) = 0 THEN [value |-> 0, decimals |-> 2, unit |-> ""]
    ELSE formatDuration(Nanos(0, SumSeq([i \in 1..Len(items) |-> items[i].custom.duration])))

\* Everything the legend derives from its prop and its two inputs.
LegendView(passed, legendFilter, selectedCategory) ==
    LET chartData == PropChartData(passed)
        filtered  == filteredLegendItems(chartData, legendFilter, selectedCategory)
    IN  [filtered   |-> filtered,
         categories |-> uniqueCategories(chartData).value,
         threw      |-> uniqueCategories(chartData).threw,
         stats      |-> taskTypeStats(filtered),
         total      |-> LegendTotalDuration(filtered)]

(***************************************************************************)
(* SpecLegend: the legend over every chartData of up to MaxLegendItems     *)
(* items (or null, or undefined), every query and every pick.              *)
(***************************************************************************)
InitLegend ==
    /\ arg \in [chartData : {[kind |-> k, items |-> <<>>] : k \in {"undefined", "null", "array"}},
                legendFilter : LegendQueries,
                selectedCategory : LegendPicks]
    /\ res = None
    /\ lastOp = "init"
    /\ ChartIdle

AddLegendItem(item) ==
    /\ lastOp = "init"
    /\ arg.chartData.kind = "array"
    /\ Len(arg.chartData.items) < MaxLegendItems
    /\ arg' = [arg EXCEPT !.chartData.items = Append(@, item)]
    /\ UNCHANGED <<res, lastOp, chartVars>>

ShowLegend ==
    /\ lastOp = "init"
    /\ res' = Some(LegendView(arg.chartData, arg.legendFilter, arg.selectedCategory))
    /\ lastOp' = "legend"
    /\ UNCHANGED <<arg, chartVars>>

NextLegend == (\E item \in LegendItems : AddLegendItem(item)) \/ ShowLegend

SpecLegend == InitLegend /\ [][NextLegend]_vars

\* t contains q when upper and lower case are not told apart: some piece of
\* t has the length of q and agrees with it letter by letter.
ContainsFolded(t, q) ==
    \E from \in 1..(Len(t) + 1) :
        /\ from + Len(q) - 1 <= Len(t)
        /\ \A k \in 1..Len(q) : LowerChar(t[from + k - 1]) = LowerChar(q[k])

LegendKeeps(item) ==
    /\ \/ arg.legendFilter = <<>>
       \/ ContainsFolded(item.y, arg.legendFilter)
       \/ ContainsFolded(item.custom.task, arg.legendFilter)
       \/ ContainsFolded(item.custom.subtask, arg.legendFilter)
    /\ \/ arg.selectedCategory = <<>>
       \/ item.custom.task = arg.selectedCategory

\* The positions of items that LegendKeeps keeps, in order.
RECURSIVE KeptBy(_)
KeptBy(items) ==
    IF items = <<>> THEN <<>>
    ELSE (IF LegendKeeps(Head(items)) THEN <<Head(items)>> ELSE <<>>) \o KeptBy(Tail(items))

\* C24: the legend lists, in displayed order, exactly the items for which
\* (the query is empty or the display name, the category or the subtask
\* contains it, case-insensitively) and (no category is picked or the item's
\* category is the picked one).
C24_LegendSearch ==
    (lastOp = "legend" /\ arg.chartData.kind = "array") =>
        Val(res).filtered = KeptBy(arg.chartData.items)

\* A query in another case than the name keeps one item, the pick another.
C24_Witness ==
    /\ lastOp = "legend"
    /\ arg.legendFilter = <<"A", "B">>
    /\ arg.selectedCategory = <<"A">>
    /\ Len(arg.chartData.items) = 2
    /\ arg.chartData.items[1].y = <<"a", "B", "a">>
    /\ arg.chartData.items[1].custom.task = <<"a">>
    /\ arg.chartData.items[2].y = <<"A", "b">>
    /\ arg.chartData.items[2].custom.task = <<"A">>
    /\ Val(res).filtered = <<arg.chartData.items[2]>>

\* C25: with chartData empty or missing, the filtered items, the category
\* list, the per-type statistics and the total are empty and nothing throws.
C25_LegendToleratesMissingData ==
    (lastOp = "legend" /\ (arg.chartData.kind # "array" \/ arg.chartData.items = <<>>)) =>
        /\ ~Val(res).threw
        /\ Val(res).filtered = <<>>
        /\ Val(res).categories = {}
        /\ DOMAIN Val(res).stats = {}
        /\ Val(res).total.value = 0

\* The same for an empty array and for a prop that is not passed.
C25_LegendToleratesEmptyData ==
    (lastOp = "legend" /\ arg.chartData.kind # "null" /\ arg.chartData.items = <<>>) =>
        /\ ~Val(res).threw
        /\ Val(res).filtered = <<>>
        /\ Val(res).categories = {}
        /\ DOMAIN Val(res).stats = {}
        /\ Val(res).total.value = 0

(***************************************************************************)
(* SpecOlder: the component as src/unnamed/part_001 has it. loadData hands *)
(* the tasks to a synchronous renderChart, which destroys the chart it     *)
(* holds and creates the next one on chartRef.value without looking at it. *)
(* The sources drawn are those whose records carry every field.            *)
(***************************************************************************)
OlderPaths == {"a", "empty"}

\* response.json() has resolved: processData, then renderChart(Chart, tasks).
\* `created` tells whether new Chart(...) returns a chart or throws. Without
\* a canvas the statement after it, chartRef.value.parentElement, throws.
LoadResolveSync(i, created) ==
    /\ loads[i].pc = "fetch"
    /\ LET tasks == processData(Files[loads[i].path])
           left  == IF IsDefined(chartInstance)
                    THEN AfterDestroy(Val(chartInstance), instances)
                    ELSE instances
           held  == IF IsDefined(chartInstance)
                    THEN Some([Val(chartInstance) EXCEPT !.destroyed = TRUE])
                    ELSE None
       IN  IF Len(tasks) = 0
           THEN /\ error' = Some("No hay datos validos en el JSON")
                /\ UNCHANGED <<chartInstance, instances>>
           ELSE /\ IF created
                   THEN /\ chartInstance' = Some(NewChart(ChartData(tasks)))
                        /\ instances' = left + 1
                   ELSE /\ chartInstance' = held
                        /\ instances' = left
                /\ IF created /\ IsDefined(chartRef)
                   THEN UNCHANGED error
                   ELSE error' = Some("Error")
    /\ loading' = FALSE
    /\ loads' = RemoveAt(loads, i)
    /\ lastOp' = "loadData:done"
    /\ UNCHANGED <<isMounted, allTasks, config, isRendering, unmounted, jsonPath,
                   render, arg, res>>

InitOlder == Init /\ jsonPath \in OlderPaths

NextOlder ==
    \/ Mount
    \/ \E p \in OlderPaths : ChangePathWithin(p, MaxInFlight)
    \/ \E i \in 1..Len(loads) : LoadFetch(i)
    \/ \E i \in 1..Len(loads) : LoadFail(i)
    \/ \E i \in 1..Len(loads), created \in BOOLEAN : LoadResolveSync(i, created)
    \/ Unmount

SpecOlder == InitOlder /\ [][NextOlder]_vars

\* C22: at any time at most one chart that has not been destroyed exists,
\* and none once the component is unmounted, also when a load or a render
\* was suspended at that moment.
C22_ScopedChart ==
    /\ instances <= 1
    /\ unmounted => instances = 0

\* While the component is mounted at most one undestroyed chart exists.
C22_OneChartWhileMounted == ~unmounted => instances <= 1

\* The chart on the page and what it shows.
Shown == Val(chartInstance).data

Quiet == render = <<>> /\ loads = <<>> /\ ~unmounted

\* C21: a change that arrives while a render is in flight is not lost: when
\* the render has completed and nothing more is pending, the chart shows
\* the filter of the interval list under the latest configuration.
C21_ChangeDuringRenderNotLost ==
    (lastOp = "renderChart:done" /\ Quiet /\ IsDefined(chartInstance)
        /\ Len(filteredTasks) > 0) =>
        Shown = ChartData(filteredTasks)

\* C26: the category emitted to the chart is the piece of the name before
\* the first '_' and the subtask is everything after the first '_' ("" when
\* there is no separator), also for names with two or more separators. A
\* subtask is one '_'-free piece, so it is the rest of the name only when
\* the rest is empty or a single piece.
C26_CategoryAndSubtask ==
    (IsDefined(chartInstance) /\ ~unmounted) =>
        \A i \in 1..Len(Shown) :
            LET name == Shown[i].y.base
                rest == Tail(name)
            IN  /\ Shown[i].custom.task = name[1]
                /\ IF rest = <<>> THEN Shown[i].custom.subtask = ""
                   ELSE Len(rest) = 1 /\ Shown[i].custom.subtask = rest[1]

\* The same for the names with at most one separator.
C26_CategoryAndSubtaskOneSeparator ==
    (IsDefined(chartInstance) /\ ~unmounted) =>
        \A i \in 1..Len(Shown) :
            LET name == Shown[i].y.base
                rest == Tail(name)
            IN  Len(name) <= 2 =>
                    /\ Shown[i].custom.task = name[1]
                    /\ IF rest = <<>> THEN Shown[i].custom.subtask = ""
                       ELSE Shown[i].custom.subtask = rest[1]

\* C27: in event form an interval is shown as ongoing (no duration, end
\* synthesized as start + 100) if and only if no end event was assigned to
\* it; an interval that received an end is shown with that end and with
\* duration = end - start, whatever the end value.
C27_OngoingIffNoEnd ==
    (Loaded /\ IsDefined(Val(res).chart)) =>
        \A i \in 1..Len(Val(res).tasks) :
            \A j \in 1..Len(Val(res).tasks[i].segments) :
                LET seg   == Val(res).tasks[i].segments[j]
                    point == Val(Val(res).chart)[i].data[j]
                IN  IF IsDefined(seg.end)
                    THEN /\ point.to = Val(seg.end)
                         /\ point.duration = Some(Val(seg.end) - seg.start)
                    ELSE /\ point.to = seg.start + SyntheticSpan
                         /\ point.duration = None

\* The same for the intervals whose end is not the absolute time 0.
C27_OngoingIffNoEndNonZero ==
    (Loaded /\ IsDefined(Val(res).chart)) =>
        \A i \in 1..Len(Val(res).tasks) :
            \A j \in 1..Len(Val(res).tasks[i].segments) :
                LET seg   == Val(res).tasks[i].segments[j]
                    point == Val(Val(res).chart)[i].data[j]
                IN  seg.end # Some(0) =>
                        IF IsDefined(seg.end)
                        THEN /\ point.to = Val(seg.end)
                             /\ point.duration = Some(Val(seg.end) - seg.start)
                        ELSE /\ point.to = seg.start + SyntheticSpan
                             /\ point.duration = None

\* A canonical duration (microseconds) in nanoseconds.
MicrosAsNanos(d) == Nanos(d \div 1000, (d % 1000) * 1000)

\* The canonical durations of the tasks of one type (of every type when
\* type is <<>>), summed.
CanonicalTotal(tasks, type) ==
    SumSeq([i \in 1..Len(tasks) |->
               IF type = <<>> \/ <<TypeOf(tasks[i])>> = type
               THEN tasks[i].segments[1].duration ELSE 0])

\* C28: for the chart data renderChart emits, the total and the per-type
\* durations of the legend are the adaptive formatting of the sums of the
\* canonical durations of the intervals shown.
C28_LegendDurationUnits ==
    (IsDefined(chartInstance) /\ ~unmounted /\ Len(Shown) > 0
        /\ Shown = ChartData(filteredTasks)) =>
        /\ LegendTotalDuration(Shown) =
               formatDuration(MicrosAsNanos(CanonicalTotal(filteredTasks, <<>>)))
        /\ \A type \in DOMAIN taskTypeStats(Shown) :
               formatDuration(Nanos(0, taskTypeStats(Shown)[type].totalDuration)) =
                   formatDuration(MicrosAsNanos(CanonicalTotal(filteredTasks, <<type>>)))

\* C29: when a configuration has been applied and no render is in flight,
\* every interval the chart shows is one of the intervals that satisfy the
\* category and time predicates of the active configuration.
C29_ShownIntervalsSatisfyConfig ==
    (lastOp = "applyConfig:emit" /\ render = <<>> /\ IsDefined(chartInstance)) =>
        \A i \in 1..Len(Shown) :
            \E k \in 1..Len(filteredTasks) : ChartItem(filteredTasks[k]) = Shown[i]

\* C30: the loading flag is true whenever a load is in flight, and false
\* once every load has completed.
C30_LoadingWhileLoadInFlight ==
    /\ loads # <<>> => loading
    /\ (loads = <<>> /\ lastOp \in {"loadData:done", "loadData:failed"}) => ~loading

====
